---- MODULE Spec2Model ----
(***************************************************************************)
(* State-machine model of the browser client of the podcast server:        *)
(* WebSocketHandler (static/js/websocket-handler.js, with the older        *)
(* variant of the same class kept in unnamed/part_000), and the parts of   *)
(* SurveyManager, AudioManager and FileUploadManager that the socket's     *)
(* message router drives.                                                  *)
(*                                                                         *)
(* JavaScript runs every handler to completion, so a handler is one step;  *)
(* the only handler split into steps is onopen, whose drain loop           *)
(* (while messageQueue.length > 0) is one step per iteration, pc = "drain" *)
(* meaning "inside the loop": no other handler can run in between.         *)
(***************************************************************************)
EXTENDS Integers, Sequences, FiniteSets, TLC

VARIABLES
    variant,            \* which of the two WebSocketHandler sources is loaded
    ws,                 \* readyState of the socket this.ws refers to ("null": this.ws = null)
    orphans,            \* live sockets this.ws no longer refers to, counted by readyState
    reconnectAttempts,  \* this.reconnectAttempts
    isConnecting,       \* this.isConnecting
    messageQueue,       \* this.messageQueue
    timers,             \* pending setTimeout callbacks of handleReconnect
    sent,               \* frames handed to ws.send, in order (the wire)
    raised,             \* an exception escaped sendMessage to its caller
    pc,                 \* "idle" between handlers, "drain" inside onopen's loop
    nextMsg,            \* identity of the next message a caller passes to sendMessage
    issuedOffline,      \* ids of the messages passed to sendMessage while the socket was not open
    failures,           \* closes and failed connects since the last successful open
    opens,              \* successful opens so far, counted up to OpensTracked
    apiCalls,           \* calls of the public method connect() from outside the class
    currentSurvey,      \* SurveyManager.currentSurvey
    surveyId,           \* SurveyManager.surveyId
    analysis,           \* SurveyManager.analysis
    plan,               \* SurveyManager.plan
    currentStep,        \* SurveyManager.currentStep
    surveyResponses,    \* SurveyManager.surveyResponses, by question_id (0: no entry)
    questions,          \* the questions of the surveys the server sends in this run
    reported,           \* the violations the last failed validateResponses reported
    generateBtnDisabled,\* generateBtn.disabled
    audioQueue,         \* AudioManager.audioQueue
    currentAudioIndex,  \* AudioManager.currentAudioIndex
    isPlaying,          \* AudioManager.isPlaying
    currentAudio,       \* AudioManager.currentAudio, as the index of the element
    pendingPlays,       \* the play() promises playNext and resumeCurrent await
    released,           \* the media of the sounding elements the last reset() removed
    files,              \* FileUploadManager.files
    activeFile,         \* FileUploadManager.activeFile
    deleting,           \* per file, the DELETE requests of deleteFile still in flight
    deleteAlerted,      \* the last deleteFile to settle ended in its catch block (alert)
    lastError,          \* the error field of the frame the last step handled, if it handled one
    lastRoute           \* whether the last step dropped its frame, if it handled one

connVars == <<ws, orphans, reconnectAttempts, isConnecting, messageQueue, timers,
              sent, raised, failures, opens>>
sessionVars == <<currentSurvey, surveyId, analysis, plan, currentStep, surveyResponses>>
playbackVars == <<audioQueue, currentAudioIndex, isPlaying, currentAudio, pendingPlays,
                  released>>
fileVars == <<files, activeFile, deleting, deleteAlerted>>
routeVars == <<lastError, lastRoute>>
vars == <<variant, questions, reported, connVars, pc, nextMsg, issuedOffline, apiCalls, sessionVars,
          generateBtnDisabled, playbackVars, fileVars, routeVars>>

----------------------------------------------------------------------------
(* Bounds of the model *)

\* messages callers pass to sendMessage in one run
MaxMsgs == 2
\* calls of connect() from outside the class in one run (SpecApi only)
MaxApiCalls == 2
\* distinct payload values (surveys, analyses, plans) the server sends
MaxVal == 1
\* segments the server streams in one run
MaxAudio == 2
\* files in the registry
MaxFiles == 2
\* play() promises pending at the same time
MaxPending == 2
\* DELETE requests in flight for one file at the same time
MaxDeletes == 2
\* questions of a survey, and the question ids they draw from
MaxQuestions == 2
\* largest validation bound (min, max) of a question
MaxBound == 2

\* successful opens the model tells apart (the count stops there)
OpensTracked == 2

(* Constants of the program *)

maxReconnectAttempts == 5
reconnectDelay == 3000
\* Math.pow(1.5, n): 1.5 as the fraction GrowthNum / GrowthDen
GrowthNum == 3
GrowthDen == 2
\* stars of a rating question without validation.max
DefaultStars == 5
\* delays are kept in half milliseconds, so that 15187.5 ms is an integer
HalfMs(ms) == 2 * ms

----------------------------------------------------------------------------
(* Sockets *)

Alive == {"CONNECTING", "OPEN", "CLOSING"}
ReadyStates == Alive \cup {"CLOSED"}

NoOrphans == [s \in Alive |-> 0]

\* A socket whose events can still fire: "ws" is the one this.ws refers to,
\* a readyState s stands for an orphaned socket in that state.
AliveRefs == (IF ws \in Alive THEN {"ws"} ELSE {}) \cup {s \in Alive : orphans[s] > 0}

StateOf(r) == IF r = "ws" THEN ws ELSE r

Handler ==
    [ws |-> ws, orphans |-> orphans, reconnectAttempts |-> reconnectAttempts,
     isConnecting |-> isConnecting, messageQueue |-> messageQueue, timers |-> timers,
     sent |-> sent, raised |-> raised, failures |-> failures, opens |-> opens]

SetHandler(h) ==
    /\ ws' = h.ws
    /\ orphans' = h.orphans
    /\ reconnectAttempts' = h.reconnectAttempts
    /\ isConnecting' = h.isConnecting
    /\ messageQueue' = h.messageQueue
    /\ timers' = h.timers
    /\ sent' = h.sent
    /\ raised' = h.raised
    /\ failures' = h.failures
    /\ opens' = h.opens

\* The browser moves socket r to readyState s.
SetState(h, r, s) ==
    IF r = "ws"
    THEN [h EXCEPT !.ws = s]
    ELSE [h EXCEPT !.orphans =
            [x \in Alive |-> (h.orphans[x] - (IF x = r THEN 1 ELSE 0))
                              + (IF x = s THEN 1 ELSE 0)]]

RECURSIVE Pow(_, _)
Pow(b, e) == IF e = 0 THEN 1 ELSE b * Pow(b, e - 1)

\* Delay with the exponent n instead of n - 1
DelayExponentN(n) == (HalfMs(reconnectDelay) * Pow(GrowthNum, n)) \div Pow(GrowthDen, n)

\* this.reconnectDelay * Math.pow(1.5, n - 1), in half milliseconds
Delay(n) == (HalfMs(reconnectDelay) * Pow(GrowthNum, n - 1)) \div Pow(GrowthDen, n - 1)

\* the division in Delay is exact: the float the code computes is this number
DelayExact(n) == (HalfMs(reconnectDelay) * Pow(GrowthNum, n - 1)) % Pow(GrowthDen, n - 1) = 0

\* handleReconnect with the cap tested by > instead of >=
handleReconnectPastCap(h) ==
    IF h.reconnectAttempts > maxReconnectAttempts
    THEN [h EXCEPT !.failures = @ + 1]
    ELSE [h EXCEPT !.reconnectAttempts = @ + 1,
                   !.timers = Append(@, [delay |-> Delay(h.reconnectAttempts + 1),
                                         n |-> h.failures + 1]),
                   !.failures = @ + 1]

handleReconnect(h) ==
    IF h.reconnectAttempts >= maxReconnectAttempts
    THEN [h EXCEPT !.failures = @ + 1]
    ELSE [h EXCEPT !.reconnectAttempts = @ + 1,
                   !.timers = Append(@, [delay |-> Delay(h.reconnectAttempts + 1),
                                         n |-> h.failures + 1]),
                   !.failures = @ + 1]

\* connect(); throws: new WebSocket(...) throws, so this.ws keeps its value
connect(h, throws) ==
    IF h.isConnecting THEN h
    ELSE IF throws THEN handleReconnect([h EXCEPT !.isConnecting = TRUE])
    ELSE [h EXCEPT !.isConnecting = TRUE,
                   !.ws = "CONNECTING",
                   !.orphans = IF h.ws \in Alive
                               THEN [@ EXCEPT ![h.ws] = @ + 1] ELSE @]

----------------------------------------------------------------------------
(* Messages *)

NoType == "(none)"

\* what a caller passes to sendMessage: an object with a type, an object
\* without one, or a string
Shapes == {"object", "string"}

Message(id, shape, type, survey_id) ==
    [id |-> id, shape |-> shape, type |-> type, survey_id |-> survey_id]

\* standardizeMessage: a string becomes {type: 'text', content}; an object
\* gets type 'unknown' when it has no type of its own, and a timestamp.
\* The older variant sends the string itself or JSON.stringify(message).
standardizeMessage(message) ==
    IF message.shape = "string"
    THEN [message EXCEPT !.shape = "object", !.type = "text"]
    ELSE IF message.type = NoType THEN [message EXCEPT !.type = "unknown"]
    ELSE message

Wire(v, message) == IF v = "current" THEN standardizeMessage(message) ELSE message

\* sendMessage whose catch block logs the error and drops the message
sendMessageDropsOnThrow(h, v, message, throws) ==
    IF h.ws = "null" \/ h.ws # "OPEN"
    THEN [h EXCEPT !.messageQueue = Append(@, message)]
    ELSE IF throws
    THEN h
    ELSE [h EXCEPT !.sent = Append(@, Wire(v, message))]

\* sendMessage(message); throws: the try block (standardize, stringify,
\* ws.send) throws
sendMessage(h, v, message, throws) ==
    IF h.ws = "null" \/ h.ws # "OPEN"
    THEN [h EXCEPT !.messageQueue = Append(@, message)]
    ELSE IF throws
    THEN [h EXCEPT !.messageQueue = Append(@, message)]
    ELSE [h EXCEPT !.sent = Append(@, Wire(v, message))]

\* onopen that leaves reconnectAttempts as it is
onopenKeepsAttempts(h) ==
    [h EXCEPT !.isConnecting = FALSE, !.failures = 0,
              !.opens = IF @ < OpensTracked THEN @ + 1 ELSE @]

\* onopen, up to the drain loop
onopen(h) ==
    [h EXCEPT !.isConnecting = FALSE, !.reconnectAttempts = 0, !.failures = 0,
              !.opens = IF @ < OpensTracked THEN @ + 1 ELSE @]

\* onclose
onclose(h) == handleReconnect([h EXCEPT !.isConnecting = FALSE])

\* the callback handleReconnect hands to setTimeout
timerCallback(h, throws) == IF ~h.isConnecting THEN connect(h, throws) ELSE h

RemoveAt(s, i) == [j \in 1..(Len(s) - 1) |-> IF j < i THEN s[j] ELSE s[j + 1]]

----------------------------------------------------------------------------
(* SurveyManager, AudioManager, FileUploadManager: what the router drives *)

\* A question of currentSurvey.sections[].questions; min and max are 0 when
\* question.validation has no such bound. "text" stands for every type whose
\* inputs carry name="question_id" (text, single_choice, multiple_choice).
QuestionTypes == {"rating", "text"}

Questions ==
    [question_id : 1..MaxQuestions, type : QuestionTypes, required : BOOLEAN,
     min : 0..MaxBound, max : 0..MaxBound]

QuestionSets == [1..MaxQuestions -> Questions]

\* surveyResponses = {}
NoResponses == [id \in 1..MaxQuestions |-> 0]

\* createQuestionInput: the stars of a rating question
Stars(question) == IF question.max # 0 THEN question.max ELSE DefaultStars

\* document.querySelector('[name="questionId"]'): only the inputs of the
\* non-rating questions carry a name
NamedInput(qs, questionId) ==
    \E i \in DOMAIN qs : qs[i].question_id = questionId /\ qs[i].type # "rating"

\* handleRatingClick(questionId, value): throws before the assignment when no
\* element is named questionId
handleRatingClick(s, qs, questionId, value) ==
    IF NamedInput(qs, questionId)
    THEN [s EXCEPT !.surveyResponses[questionId] = value]
    ELSE s

\* validateQuestion without the test of question.required
validateQuestionNotRequired(question, response) ==
    IF response = 0 THEN "none"
    ELSE IF question.type = "rating"
    THEN IF question.min # 0 /\ response < question.min THEN "min"
         ELSE IF question.max # 0 /\ response > question.max THEN "max"
         ELSE "none"
    ELSE "none"

\* validateQuestion(question): the violation found, "none" for null. A stored
\* response is a number (handleRatingClick is the only writer), so for a text
\* or choice question response.length is undefined and no bound is violated.
validateQuestion(question, response) ==
    IF question.required /\ response = 0 THEN "required"
    ELSE IF response = 0 THEN "none"
    ELSE IF question.type = "rating"
    THEN IF question.min # 0 /\ response < question.min THEN "min"
         ELSE IF question.max # 0 /\ response > question.max THEN "max"
         ELSE "none"
    ELSE "none"

\* validateResponses: the errors shown and alerted, by question
validateResponses(qs, responses) ==
    {<<i, validateQuestion(qs[i], responses[qs[i].question_id])>> :
        i \in {j \in DOMAIN qs : validateQuestion(qs[j], responses[qs[j].question_id]) # "none"}}

\* startSurveyProcess(topic), up to wsHandler.sendMessage
startSurveyProcess(s) == [s EXCEPT !.generateBtnDisabled = TRUE]

\* the page script's click listener, which runs after SurveyManager's: it
\* calls wsHandler.getConnectionStatus(), which the newer WebSocketHandler
\* does not define; the catch block re-enables the button
pageGenerateListener(s) == [s EXCEPT !.generateBtnDisabled = FALSE]

Session ==
    [currentSurvey |-> currentSurvey, surveyId |-> surveyId, analysis |-> analysis,
     plan |-> plan, currentStep |-> currentStep, surveyResponses |-> surveyResponses,
     generateBtnDisabled |-> generateBtnDisabled]

SetSession(s) ==
    /\ currentSurvey' = s.currentSurvey
    /\ surveyId' = s.surveyId
    /\ analysis' = s.analysis
    /\ plan' = s.plan
    /\ currentStep' = s.currentStep
    /\ surveyResponses' = s.surveyResponses
    /\ generateBtnDisabled' = s.generateBtnDisabled

\* SurveyManager.handleError: re-enables the generate button
surveyHandleError(s) == [s EXCEPT !.generateBtnDisabled = FALSE]

\* handleSurveyGenerated(data); a payload value 0 is a missing field, on
\* which renderSurvey throws (this.currentSurvey.title of undefined)
handleSurveyGenerated(s, f) ==
    LET s1 == [s EXCEPT !.currentSurvey = f.survey, !.surveyId = f.survey_id]
    IN IF f.survey = 0 THEN surveyHandleError(s1) ELSE [s1 EXCEPT !.currentStep = 1]

\* handleAnalysisReceived(data), the part before wsHandler.sendMessage
handleAnalysisReceived(s, f) ==
    LET s1 == [s EXCEPT !.analysis = f.analysis]
    IN IF f.analysis = 0 THEN surveyHandleError(s1) ELSE [s1 EXCEPT !.currentStep = 2]

\* handlePlanReceived(data)
handlePlanReceived(s, f) ==
    LET s1 == [s EXCEPT !.plan = f.plan]
    IN IF f.plan = 0 THEN surveyHandleError(s1)
       ELSE [s1 EXCEPT !.currentStep = 3, !.generateBtnDisabled = FALSE]

\* SurveyManager.reset
surveyReset(s) ==
    [s EXCEPT !.currentSurvey = 0, !.surveyResponses = NoResponses, !.surveyId = 0,
              !.analysis = 0, !.plan = 0, !.currentStep = 1]

\* window.audioManager and window.surveyManager: audio-manager.js declares
\* "const audioManager" and the page script "let surveyManager"; a top-level
\* const or let is no property of window, so both lookups give undefined.
WindowAudioManager == FALSE
\* window.surveyManager as it would be, had the page assigned it
WindowSurveyManagerAssigned == TRUE
WindowSurveyManager == FALSE

\* handleComplete
handleComplete(v, s) ==
    LET s1 == [s EXCEPT !.generateBtnDisabled = FALSE]
    IN IF v = "current" /\ WindowSurveyManager THEN surveyReset(s1) ELSE s1

\* AudioManager.addAudio(audioUrl, messageElement)
addAudio(q, url) == Append(q, [url |-> url, media |-> "paused"])

\* handleSectionReady(response): the newer source adds the audio only when
\* response.audio_file and window.audioManager are truthy, the older always
handleSectionReady(v, q, f) ==
    IF v = "current"
    THEN IF f.audio_file # 0 /\ WindowAudioManager THEN addAudio(q, f.audio_file) ELSE q
    ELSE addAudio(q, f.audio_file)

\* this.currentAudio = null
NoAudio == -1

\* An element of audioQueue is an Audio with the state of its media:
\* "paused" (as created, or after pause()), "starting" (play() called, not
\* yet playing), "playing", "ended", "failed" (it cannot be loaded or decoded).
MediaStates == {"paused", "starting", "playing", "ended", "failed"}

\* the segments whose media is audible or about to be
Sounding(q) == {i \in DOMAIN q : q[i].media \in {"starting", "playing"}}

Player ==
    [audioQueue |-> audioQueue, currentAudioIndex |-> currentAudioIndex,
     isPlaying |-> isPlaying, currentAudio |-> currentAudio,
     pendingPlays |-> pendingPlays, released |-> released]

SetPlayer(a) ==
    /\ audioQueue' = a.audioQueue
    /\ currentAudioIndex' = a.currentAudioIndex
    /\ isPlaying' = a.isPlaying
    /\ currentAudio' = a.currentAudio
    /\ pendingPlays' = a.pendingPlays
    /\ released' = a.released

\* the constructor's state of the AudioManager
NewPlayer ==
    [audioQueue |-> <<>>, currentAudioIndex |-> -1, isPlaying |-> FALSE,
     currentAudio |-> NoAudio, pendingPlays |-> <<>>, released |-> {}]

\* audio.play() on the element at index i (from 0, as in the code), awaited
\* by kind: the media starts unless it plays already or has failed, and the
\* promise stays pending
play(a, i, kind) ==
    [a EXCEPT !.audioQueue[i + 1].media =
                    IF @ \in {"playing", "failed"} THEN @ ELSE "starting",
              !.pendingPlays = Append(@, [audio |-> i, kind |-> kind,
                                          detached |-> FALSE])]

\* pause() that leaves the media as it is
pauseIgnored(media) == media

\* audio.pause()
pause(media) == IF media \in {"starting", "playing"} THEN "paused" ELSE media

\* playNext that stays on the current segment once one is current
playNextRepeating(a) ==
    LET index == IF a.currentAudioIndex = -1 THEN 0 ELSE a.currentAudioIndex
    IN IF index < Len(a.audioQueue)
       THEN play([a EXCEPT !.currentAudioIndex = index, !.currentAudio = index],
                 index, "playNext")
       ELSE [a EXCEPT !.currentAudioIndex = -1, !.isPlaying = FALSE,
                      !.currentAudio = NoAudio]

\* playNext whose end-of-queue branch leaves currentAudio as it is
playNextKeepingCurrent(a) ==
    LET index == a.currentAudioIndex + 1
    IN IF index < Len(a.audioQueue)
       THEN play([a EXCEPT !.currentAudioIndex = index, !.currentAudio = index],
                 index, "playNext")
       ELSE [a EXCEPT !.currentAudioIndex = -1, !.isPlaying = FALSE]

\* playNext(), up to its await
playNext(a) ==
    LET index == a.currentAudioIndex + 1
    IN IF index < Len(a.audioQueue)
       THEN play([a EXCEPT !.currentAudioIndex = index, !.currentAudio = index],
                 index, "playNext")
       ELSE [a EXCEPT !.currentAudioIndex = -1, !.isPlaying = FALSE,
                      !.currentAudio = NoAudio]

\* pauseCurrent()
pauseCurrent(a) ==
    IF a.currentAudio # NoAudio
    THEN [a EXCEPT !.audioQueue[a.currentAudio + 1].media = pause(@),
                   !.isPlaying = FALSE]
    ELSE a

\* resumeCurrent(), up to its await
resumeCurrent(a) ==
    IF a.currentAudio # NoAudio THEN play(a, a.currentAudio, "resumeCurrent") ELSE a

\* togglePlayAll()
togglePlayAll(a) ==
    IF ~a.isPlaying
    THEN IF a.currentAudioIndex = -1 \/ a.currentAudioIndex >= Len(a.audioQueue) - 1
         THEN playNext([a EXCEPT !.currentAudioIndex = -1])
         ELSE resumeCurrent(a)
    ELSE pauseCurrent(a)

\* togglePause()
togglePause(a) == IF a.isPlaying THEN pauseCurrent(a) ELSE resumeCurrent(a)

\* the code after "await audio.play()" in playNext, after "await
\* this.currentAudio.play()" in resumeCurrent
afterPlay(a) == [a EXCEPT !.isPlaying = TRUE]

\* the catch block of playNext calls playNext(); that of resumeCurrent logs
catchPlay(a, kind) == IF kind = "playNext" THEN playNext(a) ELSE a

\* the "ended" listener addAudio registers on the element at index i
onended(a, i) == IF i = a.currentAudio THEN playNext(a) ELSE a

\* AudioManager.reset(): the queued elements are paused and leave the queue;
\* the promises of their play() calls stay pending
audioReset(a) ==
    [a EXCEPT !.audioQueue = <<>>, !.currentAudioIndex = -1, !.isPlaying = FALSE,
              !.currentAudio = NoAudio,
              !.released = {[was |-> a.audioQueue[j].media,
                             now |-> pause(a.audioQueue[j].media)] :
                                j \in Sounding(a.audioQueue)},
              !.pendingPlays = [k \in DOMAIN @ |-> [@[k] EXCEPT !.audio = 0,
                                                               !.detached = TRUE]]]

NoFile == [present |-> FALSE, processed |-> FALSE, context |-> 0]

\* this.activeFile = null
NoActiveFile == 0

\* a toggle that keeps the file that is already active when another is clicked
toggleFileContextKeeping(active, fileId) ==
    IF active = fileId THEN NoActiveFile ELSE IF active = NoActiveFile THEN fileId ELSE active

\* FileUploadManager.toggleFileContext(fileId)
toggleFileContext(active, fileId) == IF active = fileId THEN NoActiveFile ELSE fileId

\* FileUploadManager.addFileToList(fileInfo)
addFileToList(fs, fileId) ==
    [fs EXCEPT ![fileId] = [present |-> TRUE, processed |-> FALSE, context |-> 0]]

\* FileUploadManager.updateFileStatus(fileId, status, context = null)
updateFileStatus(fs, fileId, status, context) ==
    IF fileId \in DOMAIN fs /\ fs[fileId].present
    THEN [fs EXCEPT ![fileId].processed = (status = "processed"),
                    ![fileId].context = IF context # 0 THEN context ELSE @]
    ELSE fs

\* FileUploadManager.getActiveFileContext(): null (0) or a context payload
getActiveFileContext(fs, active) ==
    IF active = NoActiveFile THEN 0
    ELSE IF fs[active].present THEN fs[active].context ELSE 0

\* the statuses updateFileStatus is called with: only 'processed' marks the
\* record processed
FileStatuses == {"processed", "processing"}

\* handleFileProcessed(response), older source only
handleFileProcessed(fs, f) == updateFileStatus(fs, f.file_id, "processed", 0)

----------------------------------------------------------------------------
(* Inbound frames *)

\* the last step handled no frame
NoFrame == "none"

\* the error field: absent, present but falsy (null, "", 0, false), or truthy
ErrorVals == {"absent", "falsy", "truthy"}

Frame(type, status, survey, survey_id, an, pl, audio_file, file_id) ==
    [decodes |-> TRUE, error |-> "absent", type |-> type, status |-> status,
     survey |-> survey, survey_id |-> survey_id, analysis |-> an, plan |-> pl,
     audio_file |-> audio_file, file_id |-> file_id]

Bodies ==
    {Frame("survey_generated", NoType, s, i, 0, 0, 0, 0) : s \in 0..MaxVal, i \in 1..MaxVal}
    \cup {Frame("survey_analysis", NoType, 0, 0, a, 0, 0, 0) : a \in 0..MaxVal}
    \cup {Frame("program_plan", NoType, 0, 0, 0, p, 0, 0) : p \in 0..MaxVal}
    \cup {Frame("section_ready", NoType, 0, 0, 0, 0, u, 0) : u \in 0..1}
    \cup {Frame(t, NoType, 0, 0, 0, 0, 0, 0) : t \in {"complete", "error", "other", NoType}}
    \cup {Frame(NoType, "section_ready", 0, 0, 0, 0, u, 0) : u \in 0..1}
    \cup {Frame(NoType, "file_processed", 0, 0, 0, 0, 0, i) : i \in 1..MaxFiles}
    \cup {Frame(t, st, 0, 0, 0, 0, 0, 0) :
            t \in {NoType, "other"}, st \in {"complete", "success", "error"}}
    \cup {Frame(NoType, st, 0, 0, 0, 0, 0, 0) :
            st \in {"processing_status", "processing", "other"}}

Undecodable == [Frame(NoType, NoType, 0, 0, 0, 0, 0, 0) EXCEPT !.decodes = FALSE]

Frames == {[b EXCEPT !.error = e] : b \in Bodies, e \in ErrorVals} \cup {Undecodable}

\* the kinds the router has a case for: response.type in the newer source,
\* response.status in the older one
KnownTypes ==
    {"survey_generated", "survey_analysis", "program_plan", "section_ready",
     "complete", "error"}
KnownStatuses == {"section_ready", "complete", "file_processed", "processing_status"}

\* RouteByKind whose default case completes the dialogue
RouteDefaultComplete(v, f) ==
    IF v = "current"
    THEN CASE f.type = "survey_generated" -> "handleSurveyGenerated"
           [] f.type = "survey_analysis" -> "handleAnalysisReceived"
           [] f.type = "program_plan" -> "handlePlanReceived"
           [] f.type = "section_ready" -> "handleSectionReady"
           [] f.type = "complete" -> "handleComplete"
           [] f.type = "error" -> "error"
           [] OTHER -> "handleComplete"
    ELSE CASE f.status = "section_ready" -> "handleSectionReady"
           [] f.status = "complete" -> "handleComplete"
           [] f.status = "file_processed" -> "handleFileProcessed"
           [] f.status = "processing_status" -> "log"
           [] OTHER -> "handleComplete"

\* the switch on response.type and response.status (newer source), on
\* response.status (older source)
RouteByKind(v, f) ==
    IF v = "current"
    THEN CASE f.type = "survey_generated" -> "handleSurveyGenerated"
           [] f.type = "survey_analysis" -> "handleAnalysisReceived"
           [] f.type = "program_plan" -> "handlePlanReceived"
           [] f.type = "section_ready" -> "handleSectionReady"
           [] f.type = "complete" -> "handleComplete"
           [] f.type = "error" -> "error"
           [] OTHER ->
                CASE f.status \in {"success", "processing"} -> "log"
                  [] f.status = "error" -> "error"
                  [] OTHER -> "dropped"
    ELSE CASE f.status = "section_ready" -> "handleSectionReady"
           [] f.status = "complete" -> "handleComplete"
           [] f.status = "file_processed" -> "handleFileProcessed"
           [] f.status = "processing_status" -> "log"
           [] OTHER -> "dropped"

\* Route without the test of response.error
RouteIgnoringError(v, f) == IF ~f.decodes THEN "dropped" ELSE RouteByKind(v, f)

\* The consumer a frame is routed to: onmessage of the newer source (by
\* type, then by status), handleMessage of the older one (by status).
Route(v, f) ==
    IF ~f.decodes THEN "dropped"
    ELSE IF f.error = "truthy" THEN "error"
    ELSE RouteByKind(v, f)

\* the older handleMessage passes an error frame to handleError, which
\* disables the generate button; the newer onmessage only logs it
reportError(v, f, s) ==
    IF v = "legacy" /\ f.error = "truthy" THEN [s EXCEPT !.generateBtnDisabled = TRUE] ELSE s

----------------------------------------------------------------------------
(* Initial state: the constructors have run; WebSocketHandler's constructor *)
(* has called connect().                                                    *)

Constructed ==
    [ws |-> "null", orphans |-> NoOrphans, reconnectAttempts |-> 0,
     isConnecting |-> FALSE, messageQueue |-> <<>>, timers |-> <<>>,
     sent |-> <<>>, raised |-> FALSE, failures |-> 0, opens |-> 0]

IsHandler(h) ==
    /\ ws = h.ws
    /\ orphans = h.orphans
    /\ reconnectAttempts = h.reconnectAttempts
    /\ isConnecting = h.isConnecting
    /\ messageQueue = h.messageQueue
    /\ timers = h.timers
    /\ sent = h.sent
    /\ raised = h.raised
    /\ failures = h.failures
    /\ opens = h.opens

InitRest ==
    /\ pc = "idle"
    /\ nextMsg = 1
    /\ issuedOffline = {}
    /\ apiCalls = 0
    /\ currentSurvey = 0
    /\ surveyId = 0
    /\ analysis = 0
    /\ plan = 0
    /\ currentStep = 1
    /\ surveyResponses = NoResponses
    /\ generateBtnDisabled = FALSE
    /\ audioQueue = <<>>
    /\ currentAudioIndex = -1
    /\ isPlaying = FALSE
    /\ currentAudio = NoAudio
    /\ pendingPlays = <<>>
    /\ released = {}
    /\ files = [i \in 1..MaxFiles |-> NoFile]
    /\ activeFile = NoActiveFile
    /\ deleting = [i \in 1..MaxFiles |-> 0]
    /\ deleteAlerted = FALSE
    /\ lastError = NoFrame
    /\ lastRoute = NoFrame
    /\ reported = {}

\* a survey whose ratings share their question_id with a text question, so
\* that a click on a star finds a named element and the rating is stored
DefaultQuestions ==
    [i \in 1..MaxQuestions |->
        [question_id |-> 1, type |-> IF i = 1 THEN "text" ELSE "rating",
         required |-> FALSE, min |-> 0, max |-> MaxBound]]

Init ==
    /\ variant \in {"current", "legacy"}
    /\ questions = DefaultQuestions
    /\ \E throws \in BOOLEAN : IsHandler(connect(Constructed, throws))
    /\ InitRest

\* the page with the newer source showing a survey, its questions being any:
\* the socket has opened and a survey_generated frame has been handled
InitSurvey ==
    /\ variant = "current"
    /\ questions \in QuestionSets
    /\ IsHandler(onopen(SetState(connect(Constructed, FALSE), "ws", "OPEN")))
    /\ pc = "idle"
    /\ nextMsg = 1
    /\ issuedOffline = {}
    /\ apiCalls = 0
    /\ currentSurvey = 1
    /\ surveyId = 1
    /\ analysis = 0
    /\ plan = 0
    /\ currentStep = 1
    /\ surveyResponses = NoResponses
    /\ generateBtnDisabled = FALSE
    /\ audioQueue = <<>>
    /\ currentAudioIndex = -1
    /\ isPlaying = FALSE
    /\ currentAudio = NoAudio
    /\ pendingPlays = <<>>
    /\ released = {}
    /\ files = [i \in 1..MaxFiles |-> NoFile]
    /\ activeFile = NoActiveFile
    /\ deleting = [i \in 1..MaxFiles |-> 0]
    /\ deleteAlerted = FALSE
    /\ lastError = NoFrame
    /\ lastRoute = NoFrame
    /\ reported = {}

----------------------------------------------------------------------------
(* Actions *)

\* the open event of socket r: onopen up to the loop
OnOpen(r) ==
    /\ pc = "idle"
    /\ r \in AliveRefs
    /\ StateOf(r) = "CONNECTING"
    /\ LET h == onopen(SetState(Handler, r, "OPEN"))
       IN /\ SetHandler(h)
          /\ pc' = IF h.messageQueue # <<>> THEN "drain" ELSE "idle"
    /\ generateBtnDisabled' = IF variant = "legacy" THEN FALSE ELSE generateBtnDisabled
    /\ UNCHANGED <<variant, questions, reported, nextMsg, issuedOffline, apiCalls, sessionVars,
                   playbackVars, fileVars>>
    /\ lastError' = NoFrame
    /\ lastRoute' = NoFrame

\* one iteration of onopen's loop: shift a message and pass it to sendMessage
DrainStep(throws) ==
    /\ pc = "drain"
    /\ LET h == sendMessage([Handler EXCEPT !.messageQueue = Tail(@)], variant,
                            Head(messageQueue), throws)
       IN /\ SetHandler(h)
          /\ pc' = IF h.messageQueue # <<>> THEN "drain" ELSE "idle"
    /\ UNCHANGED <<variant, questions, reported, nextMsg, issuedOffline, apiCalls, sessionVars,
                   generateBtnDisabled, playbackVars, fileVars>>
    /\ lastError' = NoFrame
    /\ lastRoute' = NoFrame

\* the closing handshake of socket r starts: readyState CLOSING, no event yet
BeginClose(r) ==
    /\ pc = "idle"
    /\ r \in AliveRefs
    /\ StateOf(r) = "OPEN"
    /\ SetHandler(SetState(Handler, r, "CLOSING"))
    /\ UNCHANGED <<variant, questions, reported, pc, nextMsg, issuedOffline, apiCalls, sessionVars,
                   generateBtnDisabled, playbackVars, fileVars>>
    /\ lastError' = NoFrame
    /\ lastRoute' = NoFrame

\* OnClose that also resets the AudioManager
OnCloseResettingPlayer(r) ==
    /\ pc = "idle"
    /\ r \in AliveRefs
    /\ SetHandler(onclose(SetState(Handler, r, "CLOSED")))
    /\ generateBtnDisabled' = IF variant = "legacy" THEN TRUE ELSE generateBtnDisabled
    /\ SetPlayer(audioReset(Player))
    /\ UNCHANGED <<variant, questions, reported, pc, nextMsg, issuedOffline, apiCalls, sessionVars,
                   fileVars>>
    /\ lastError' = NoFrame
    /\ lastRoute' = NoFrame

\* the close event of socket r (a failed connect, or the end of a connection)
OnClose(r) ==
    /\ pc = "idle"
    /\ r \in AliveRefs
    /\ SetHandler(onclose(SetState(Handler, r, "CLOSED")))
    /\ generateBtnDisabled' = IF variant = "legacy" THEN TRUE ELSE generateBtnDisabled
    /\ UNCHANGED <<variant, questions, reported, pc, nextMsg, issuedOffline, apiCalls, sessionVars,
                   playbackVars, fileVars>>
    /\ lastError' = NoFrame
    /\ lastRoute' = NoFrame

\* OnError that also calls handleReconnect, as onclose does
OnErrorReconnecting(r) ==
    /\ pc = "idle"
    /\ r \in AliveRefs
    /\ SetHandler(handleReconnect(Handler))
    /\ generateBtnDisabled' = IF variant = "legacy" THEN TRUE ELSE generateBtnDisabled
    /\ UNCHANGED <<variant, questions, reported, pc, nextMsg, issuedOffline, apiCalls, sessionVars,
                   playbackVars, fileVars>>
    /\ lastError' = NoFrame
    /\ lastRoute' = NoFrame

\* the error event of socket r: logged; the older source also disables the button
OnError(r) ==
    /\ pc = "idle"
    /\ r \in AliveRefs
    /\ generateBtnDisabled' = IF variant = "legacy" THEN TRUE ELSE generateBtnDisabled
    /\ UNCHANGED <<variant, questions, reported, connVars, pc, nextMsg, issuedOffline, apiCalls, sessionVars,
                   playbackVars, fileVars>>
    /\ lastError' = NoFrame
    /\ lastRoute' = NoFrame

\* the i-th pending reconnect timer fires
TimerFire(i, throws) ==
    /\ pc = "idle"
    /\ i \in DOMAIN timers
    /\ SetHandler(timerCallback([Handler EXCEPT !.timers = RemoveAt(@, i)], throws))
    /\ UNCHANGED <<variant, questions, reported, pc, nextMsg, issuedOffline, apiCalls, sessionVars,
                   generateBtnDisabled, playbackVars, fileVars>>
    /\ lastError' = NoFrame
    /\ lastRoute' = NoFrame

\* a caller (startSurveyProcess, submitSurvey, processFile, the generate
\* button) passes a message to wsHandler.sendMessage
CallerSend(shape, throws) ==
    /\ pc = "idle"
    /\ nextMsg <= MaxMsgs
    /\ SetHandler(sendMessage(Handler, variant,
                              Message(nextMsg, shape,
                                      IF shape = "object" THEN "request" ELSE NoType, 0),
                              throws))
    /\ nextMsg' = nextMsg + 1
    /\ issuedOffline' = IF ws # "OPEN" THEN issuedOffline \cup {nextMsg} ELSE issuedOffline
    /\ UNCHANGED <<variant, questions, reported, pc, apiCalls, sessionVars, generateBtnDisabled,
                   playbackVars, fileVars>>
    /\ lastError' = NoFrame
    /\ lastRoute' = NoFrame

\* connect() called from outside the class
ConnectCall(throws) ==
    /\ pc = "idle"
    /\ apiCalls < MaxApiCalls
    /\ apiCalls' = apiCalls + 1
    /\ SetHandler(connect(Handler, throws))
    /\ UNCHANGED <<variant, questions, reported, pc, nextMsg, issuedOffline, sessionVars,
                   generateBtnDisabled, playbackVars, fileVars>>
    /\ lastError' = NoFrame
    /\ lastRoute' = NoFrame

\* the message event of an open socket: onmessage / handleMessage with frame f;
\* throws: the transmit of the program_plan request, if one is sent, fails
OnMessage(f, throws) ==
    LET route == Route(variant, f)
        sends == route = "handleAnalysisReceived" /\ f.analysis # 0
        s == Session
    IN
    /\ pc = "idle"
    /\ \E r \in AliveRefs : StateOf(r) = "OPEN"
    /\ sends => nextMsg <= MaxMsgs
    /\ throws => sends
    /\ SetSession(CASE route = "handleSurveyGenerated" -> handleSurveyGenerated(s, f)
                    [] route = "handleAnalysisReceived" -> handleAnalysisReceived(s, f)
                    [] route = "handlePlanReceived" -> handlePlanReceived(s, f)
                    [] route = "handleComplete" -> handleComplete(variant, s)
                    [] route = "error" -> reportError(variant, f, s)
                    [] OTHER -> s)
    /\ SetHandler(IF sends
                  THEN sendMessage(Handler, variant,
                                   Message(nextMsg, "object", "program_plan", surveyId),
                                   throws)
                  ELSE Handler)
    /\ nextMsg' = IF sends THEN nextMsg + 1 ELSE nextMsg
    /\ issuedOffline' = IF sends /\ ws # "OPEN"
                        THEN issuedOffline \cup {nextMsg} ELSE issuedOffline
    /\ audioQueue' = IF route = "handleSectionReady"
                     THEN handleSectionReady(variant, audioQueue, f) ELSE audioQueue
    /\ Len(audioQueue') <= MaxAudio
    /\ UNCHANGED <<currentAudioIndex, isPlaying, currentAudio, pendingPlays, released>>
    /\ files' = IF route = "handleFileProcessed"
                THEN handleFileProcessed(files, f) ELSE files
    /\ UNCHANGED <<activeFile, deleting, deleteAlerted>>
    /\ lastError' = f.error
    /\ lastRoute' = IF route \in {"dropped", "log"} THEN "dropped" ELSE "routed"
    /\ UNCHANGED <<variant, questions, reported, pc, apiCalls>>

\* loadExistingFiles or processFile registers a file
AddFileToList(fileId) ==
    /\ pc = "idle"
    /\ files' = addFileToList(files, fileId)
    /\ UNCHANGED <<activeFile, deleting, deleteAlerted>>
    /\ UNCHANGED <<variant, questions, reported, connVars, pc, nextMsg, issuedOffline, apiCalls, sessionVars,
                   generateBtnDisabled, playbackVars>>
    /\ lastError' = NoFrame
    /\ lastRoute' = NoFrame

\* a click on the enabled generate button, with a topic typed. Newer source:
\* SurveyManager's listener (startSurveyProcess), then the page script's.
\* Older source: its own listener resets the audio manager and asks for the
\* dialogue.
GenerateClick(throws) ==
    /\ pc = "idle"
    /\ ~generateBtnDisabled
    /\ nextMsg <= MaxMsgs
    /\ SetHandler(sendMessage(Handler, variant,
                              Message(nextMsg, "object",
                                      IF variant = "current" THEN "survey_generate"
                                                             ELSE "dialogue", 0),
                              throws))
    /\ SetSession(IF variant = "current"
                  THEN pageGenerateListener(startSurveyProcess(Session))
                  ELSE [Session EXCEPT !.generateBtnDisabled = TRUE])
    /\ SetPlayer(IF variant = "current" THEN Player ELSE audioReset(Player))
    /\ nextMsg' = nextMsg + 1
    /\ issuedOffline' = IF ws # "OPEN" THEN issuedOffline \cup {nextMsg} ELSE issuedOffline
    /\ UNCHANGED <<variant, questions, reported, pc, apiCalls, fileVars>>
    /\ lastError' = NoFrame
    /\ lastRoute' = NoFrame

\* a click on star value of the i-th question of the rendered survey
HandleRatingClick(i, value) ==
    /\ pc = "idle"
    /\ currentSurvey # 0
    /\ i \in DOMAIN questions
    /\ questions[i].type = "rating"
    /\ value \in 1..Stars(questions[i])
    /\ SetSession(handleRatingClick(Session, questions, questions[i].question_id, value))
    /\ UNCHANGED <<variant, questions, reported, connVars, pc, nextMsg, issuedOffline,
                   apiCalls, playbackVars, fileVars>>
    /\ lastError' = NoFrame
    /\ lastRoute' = NoFrame

\* a click on the submit button of the rendered survey: submitSurvey()
SubmitSurvey(throws) ==
    LET errors == validateResponses(questions, surveyResponses)
    IN
    /\ pc = "idle"
    /\ currentSurvey # 0
    /\ nextMsg <= MaxMsgs
    /\ throws => errors = {}
    /\ IF errors # {}
       THEN /\ reported' = errors
            /\ UNCHANGED <<connVars, nextMsg, issuedOffline>>
       ELSE /\ SetHandler(sendMessage(Handler, variant,
                                      Message(nextMsg, "object", "survey_submit", surveyId),
                                      throws))
            /\ nextMsg' = nextMsg + 1
            /\ issuedOffline' = IF ws # "OPEN"
                                THEN issuedOffline \cup {nextMsg} ELSE issuedOffline
            /\ UNCHANGED reported
    /\ UNCHANGED <<variant, questions, pc, apiCalls, sessionVars, generateBtnDisabled,
                   playbackVars, fileVars>>
    /\ lastError' = NoFrame
    /\ lastRoute' = NoFrame

\* a click on playAllBtn, or the space key
TogglePlayAll ==
    /\ pc = "idle"
    /\ SetPlayer(togglePlayAll(Player))
    /\ Len(pendingPlays') <= MaxPending
    /\ UNCHANGED <<variant, questions, reported, connVars, pc, nextMsg, issuedOffline,
                   apiCalls, sessionVars, generateBtnDisabled, fileVars>>
    /\ lastError' = NoFrame
    /\ lastRoute' = NoFrame

\* a click on pauseBtn
TogglePause ==
    /\ pc = "idle"
    /\ SetPlayer(togglePause(Player))
    /\ Len(pendingPlays') <= MaxPending
    /\ UNCHANGED <<variant, questions, reported, connVars, pc, nextMsg, issuedOffline,
                   apiCalls, sessionVars, generateBtnDisabled, fileVars>>
    /\ lastError' = NoFrame
    /\ lastRoute' = NoFrame

\* the k-th pending play() promise is fulfilled: the media plays (or the
\* fulfilment was on its way when the media was paused or reset)
PlayResolves(k) ==
    /\ pc = "idle"
    /\ k \in DOMAIN pendingPlays
    /\ LET p == pendingPlays[k]
           a == [Player EXCEPT !.pendingPlays = RemoveAt(@, k)]
       IN /\ ~p.detached => audioQueue[p.audio + 1].media # "failed"
          /\ SetPlayer(afterPlay(
                IF ~p.detached /\ audioQueue[p.audio + 1].media = "starting"
                THEN [a EXCEPT !.audioQueue[p.audio + 1].media = "playing"]
                ELSE a))
    /\ UNCHANGED <<variant, questions, reported, connVars, pc, nextMsg, issuedOffline,
                   apiCalls, sessionVars, generateBtnDisabled, fileVars>>
    /\ lastError' = NoFrame
    /\ lastRoute' = NoFrame

\* the k-th pending play() promise is rejected: the media cannot be started,
\* or pause() was called on it before it played
PlayRejects(k) ==
    /\ pc = "idle"
    /\ k \in DOMAIN pendingPlays
    /\ LET p == pendingPlays[k]
           a == [Player EXCEPT !.pendingPlays = RemoveAt(@, k)]
       IN /\ ~p.detached => audioQueue[p.audio + 1].media \in {"starting", "paused", "failed"}
          /\ SetPlayer(catchPlay(
                IF ~p.detached /\ audioQueue[p.audio + 1].media = "starting"
                THEN [a EXCEPT !.audioQueue[p.audio + 1].media = "failed"]
                ELSE a,
                p.kind))
    /\ Len(pendingPlays') <= MaxPending
    /\ UNCHANGED <<variant, questions, reported, connVars, pc, nextMsg, issuedOffline,
                   apiCalls, sessionVars, generateBtnDisabled, fileVars>>
    /\ lastError' = NoFrame
    /\ lastRoute' = NoFrame

\* the media of the element at index i plays to its end: its "ended" event
Ended(i) ==
    /\ pc = "idle"
    /\ i + 1 \in DOMAIN audioQueue
    /\ audioQueue[i + 1].media = "playing"
    /\ SetPlayer(onended([Player EXCEPT !.audioQueue[i + 1].media = "ended"], i))
    /\ Len(pendingPlays') <= MaxPending
    /\ UNCHANGED <<variant, questions, reported, connVars, pc, nextMsg, issuedOffline,
                   apiCalls, sessionVars, generateBtnDisabled, fileVars>>
    /\ lastError' = NoFrame
    /\ lastRoute' = NoFrame

\* the media of the element at index i fails while it plays: its "error"
\* event, whose listener writes a log line
MediaError(i) ==
    /\ pc = "idle"
    /\ i + 1 \in DOMAIN audioQueue
    /\ audioQueue[i + 1].media = "playing"
    /\ SetPlayer([Player EXCEPT !.audioQueue[i + 1].media = "failed"])
    /\ UNCHANGED <<variant, questions, reported, connVars, pc, nextMsg, issuedOffline,
                   apiCalls, sessionVars, generateBtnDisabled, fileVars>>
    /\ lastError' = NoFrame
    /\ lastRoute' = NoFrame

\* a click on the context button of a listed file
ToggleFileContext(fileId) ==
    /\ pc = "idle"
    /\ files[fileId].present
    /\ activeFile' = toggleFileContext(activeFile, fileId)
    /\ UNCHANGED <<variant, questions, reported, connVars, pc, nextMsg, issuedOffline,
                   apiCalls, sessionVars, generateBtnDisabled, playbackVars, files,
                   deleting, deleteAlerted>>
    /\ lastError' = NoFrame
    /\ lastRoute' = NoFrame

\* a click on the delete button of a listed file: deleteFile runs up to its
\* await of the DELETE request
DeleteClick(fileId) ==
    /\ pc = "idle"
    /\ files[fileId].present
    /\ deleting[fileId] < MaxDeletes
    /\ deleting' = [deleting EXCEPT ![fileId] = @ + 1]
    /\ UNCHANGED <<variant, questions, reported, connVars, pc, nextMsg, issuedOffline,
                   apiCalls, sessionVars, generateBtnDisabled, playbackVars, files,
                   activeFile, deleteAlerted>>
    /\ lastError' = NoFrame
    /\ lastRoute' = NoFrame

\* DeleteFile without the test of this.activeFile
DeleteFileKeepingActive(fileId, ok) ==
    /\ pc = "idle"
    /\ deleting[fileId] > 0
    /\ deleting' = [deleting EXCEPT ![fileId] = @ - 1]
    /\ activeFile' = activeFile
    /\ files' = IF ok THEN [files EXCEPT ![fileId] = NoFile] ELSE files
    /\ deleteAlerted' = ~ok
    /\ UNCHANGED <<variant, questions, reported, connVars, pc, nextMsg, issuedOffline,
                   apiCalls, sessionVars, generateBtnDisabled, playbackVars>>
    /\ lastError' = NoFrame
    /\ lastRoute' = NoFrame

\* DeleteFile that removes the record before it looks at the response
DeleteFileOptimistic(fileId, ok) ==
    /\ pc = "idle"
    /\ deleting[fileId] > 0
    /\ deleting' = [deleting EXCEPT ![fileId] = @ - 1]
    /\ activeFile' = IF activeFile = fileId THEN NoActiveFile ELSE activeFile
    /\ files' = [files EXCEPT ![fileId] = NoFile]
    /\ deleteAlerted' = ~ok
    /\ UNCHANGED <<variant, questions, reported, connVars, pc, nextMsg, issuedOffline,
                   apiCalls, sessionVars, generateBtnDisabled, playbackVars>>
    /\ lastError' = NoFrame
    /\ lastRoute' = NoFrame

\* the DELETE request of a deleteFile settles and deleteFile runs on from its
\* await: a response that is not ok, or a failed request, only alerts
DeleteFile(fileId, ok) ==
    /\ pc = "idle"
    /\ deleting[fileId] > 0
    /\ deleting' = [deleting EXCEPT ![fileId] = @ - 1]
    /\ activeFile' = IF ok /\ activeFile = fileId THEN NoActiveFile ELSE activeFile
    /\ files' = IF ok THEN [files EXCEPT ![fileId] = NoFile] ELSE files
    /\ deleteAlerted' = ~ok
    /\ UNCHANGED <<variant, questions, reported, connVars, pc, nextMsg, issuedOffline,
                   apiCalls, sessionVars, generateBtnDisabled, playbackVars>>
    /\ lastError' = NoFrame
    /\ lastRoute' = NoFrame

\* updateFileStatus(fileId, status, context) called from outside the class
UpdateFileStatusCall(fileId, status, context) ==
    /\ pc = "idle"
    /\ files' = updateFileStatus(files, fileId, status, context)
    /\ UNCHANGED <<variant, questions, reported, connVars, pc, nextMsg, issuedOffline,
                   apiCalls, sessionVars, generateBtnDisabled, playbackVars, activeFile,
                   deleting, deleteAlerted>>
    /\ lastError' = NoFrame
    /\ lastRoute' = NoFrame

Sockets == {"ws"} \cup Alive

\* WebSocketHandler with its callers: connect() is called by the constructor
\* and by the reconnect timer only, as the page is wired
Transport ==
    \/ \E r \in Sockets : OnOpen(r)
    \/ \E throws \in BOOLEAN : DrainStep(throws)
    \/ \E r \in Sockets : BeginClose(r)
    \/ \E r \in Sockets : OnClose(r)
    \/ \E r \in Sockets : OnError(r)
    \/ \E i \in 1..maxReconnectAttempts, throws \in BOOLEAN : TimerFire(i, throws)
    \/ \E shape \in Shapes, throws \in BOOLEAN : CallerSend(shape, throws)

\* the inbound side: frames of an open socket and the file registry
Router ==
    \/ \E f \in Frames, throws \in BOOLEAN : OnMessage(f, throws)
    \/ \E fileId \in 1..MaxFiles : AddFileToList(fileId)

Next ==
    \/ Transport
    \/ Router
    \/ \E throws \in BOOLEAN : GenerateClick(throws)
    \/ \E i \in 1..MaxQuestions, value \in 1..DefaultStars : HandleRatingClick(i, value)
    \/ \E throws \in BOOLEAN : SubmitSurvey(throws)

Spec == Init /\ [][Next]_vars

\* the transport alone
SpecTransport == Init /\ [][Transport]_vars

\* the transport with the loop of onopen running on: the loop is synchronous
\* code, so an iteration that can be taken is taken
SpecTransportLive ==
    Init /\ [][Transport]_vars /\ WF_vars(\E throws \in BOOLEAN : DrainStep(throws))

\* the transport with its public method connect() also called from outside
TransportApi == Transport \/ \E throws \in BOOLEAN : ConnectCall(throws)

SpecApi == Init /\ [][TransportApi]_vars

\* the router over the life of one connection whose transmits succeed: it
\* opens, frames arrive, it closes
RouterConn ==
    \/ \E r \in Sockets : OnOpen(r)
    \/ \E r \in Sockets : OnClose(r)
    \/ \E f \in Frames : OnMessage(f, FALSE)
    \/ \E fileId \in 1..MaxFiles : AddFileToList(fileId)

SpecRouter == Init /\ [][RouterConn]_vars

\* the user's side of a session: the generate button, the stars, the submit button
User ==
    \/ GenerateClick(FALSE)
    \/ \E i \in 1..MaxQuestions, value \in 1..DefaultStars : HandleRatingClick(i, value)
    \/ SubmitSurvey(FALSE)

\* a session over one open connection whose transmits succeed
SessionConn ==
    \/ \E r \in Sockets : OnOpen(r)
    \/ \E f \in Frames : OnMessage(f, FALSE)
    \/ User

SpecSession == Init /\ [][SessionConn]_vars

\* inbound frames and the stars of the survey shown, over one open connection
CaptureConn ==
    \/ \E r \in Sockets : OnOpen(r)
    \/ \E f \in Frames : OnMessage(f, FALSE)
    \/ \E i \in 1..MaxQuestions, value \in 1..DefaultStars : HandleRatingClick(i, value)

SpecCapture == Init /\ [][CaptureConn]_vars

\* filling in and submitting the survey shown
SurveyForm ==
    \/ \E i \in 1..MaxQuestions, value \in 1..DefaultStars : HandleRatingClick(i, value)
    \/ \E throws \in BOOLEAN : SubmitSurvey(throws)

SpecSurvey == InitSurvey /\ [][SurveyForm]_vars

\* the listeners of the AudioManager: its buttons, the media events and the
\* settling of the play() promises
Playback ==
    \/ TogglePlayAll
    \/ TogglePause
    \/ \E k \in 1..MaxPending : PlayResolves(k)
    \/ \E k \in 1..MaxPending : PlayRejects(k)
    \/ \E i \in 0..(MaxAudio - 1) : Ended(i)
    \/ \E i \in 0..(MaxAudio - 1) : MediaError(i)

\* the segments of a dialogue arrive on one open connection and are played
SegmentFrames == {f \in Frames : f.error = "absent" /\ f.audio_file # 0}

PlaybackConn ==
    \/ \E r \in Sockets : OnOpen(r)
    \/ \E f \in SegmentFrames : OnMessage(f, FALSE)
    \/ Playback

SpecPlayback == Init /\ [][PlaybackConn]_vars

\* the frames that carry a segment or a part of the session
PlainFrames ==
    SegmentFrames
    \cup {f \in Frames : f.error = "absent" /\ f.survey + f.analysis + f.plan > 0}

\* the page in use on one open connection: frames arrive, segments are
\* played, and the generate button starts over
PageConn ==
    \/ \E r \in Sockets : OnOpen(r)
    \/ \E f \in PlainFrames : OnMessage(f, FALSE)
    \/ Playback
    \/ GenerateClick(FALSE)

SpecPage == Init /\ [][PageConn]_vars

\* a dialogue streams over a connection that drops and is opened again
StreamConn ==
    \/ \E r \in Sockets : OnOpen(r)
    \/ \E r \in Sockets : OnClose(r)
    \/ \E i \in 1..maxReconnectAttempts : TimerFire(i, FALSE)
    \/ \E f \in SegmentFrames : OnMessage(f, FALSE)
    \/ Playback

SpecStream == Init /\ [][StreamConn]_vars

\* the file registry with the context buttons of its files
FilesConn ==
    \/ \E r \in Sockets : OnOpen(r)
    \/ \E f \in {g \in Frames : g.status = "file_processed"} : OnMessage(f, FALSE)
    \/ \E fileId \in 1..MaxFiles : AddFileToList(fileId)
    \/ \E fileId \in 1..MaxFiles : ToggleFileContext(fileId)
    \/ \E fileId \in 1..MaxFiles : DeleteClick(fileId)
    \/ \E fileId \in 1..MaxFiles, ok \in BOOLEAN : DeleteFile(fileId, ok)

SpecFiles == Init /\ [][FilesConn]_vars

\* the file registry with its public method updateFileStatus also called from
\* outside
FilesApi ==
    \/ FilesConn
    \/ \E fileId \in 1..MaxFiles, status \in FileStatuses, context \in 0..MaxVal :
            UpdateFileStatusCall(fileId, status, context)

SpecFilesApi == Init /\ [][FilesApi]_vars

----------------------------------------------------------------------------
(* Properties *)

Range(q) == {q[i] : i \in DOMAIN q}
Ids(q) == [i \in DOMAIN q |-> q[i].id]
Increasing(q) == \A i, j \in DOMAIN q : i < j => q[i] < q[j]

\* connect() got past its guard: a connection attempt is made
AttemptStarted == ~isConnecting /\ isConnecting'

\* the open event of some socket was handled
OpenStep ==
    \/ ws = "CONNECTING" /\ ws' = "OPEN"
    \/ orphans'["OPEN"] > orphans["OPEN"] /\ orphans'["CONNECTING"] < orphans["CONNECTING"]

\* a reconnect timer fired
TimerStep == \E i \in DOMAIN timers, throws \in BOOLEAN : TimerFire(i, throws)

\* a socket closed, or connect() failed: handleReconnect was called
FailureStep == failures' = failures + 1

\* C1: the messages passed to sendMessage while the socket was not open are
\* transmitted in the order they were issued, none twice, and once the socket
\* is open and its open handler has returned none of them is missing.
\* Violated: a transmit that fails during the drain puts the message behind
\* the ones queued after it.
C1_OfflineFifo ==
    /\ Increasing(SelectSeq(Ids(sent), LAMBDA id : id \in issuedOffline))
    /\ (pc = "idle" /\ ws = "OPEN") => issuedOffline \subseteq Range(Ids(sent))

\* C2: between handlers, no transmitted message was issued after a message
\* that is still in the pending queue (a later send never overtakes a queued
\* message). Violated: a message whose transmit failed on the open socket
\* waits in the queue while later sends go out.
C2_NoOvertaking ==
    pc = "idle" =>
        \A i \in DOMAIN messageQueue, j \in DOMAIN sent : sent[j].id < messageQueue[i].id

\* C3: sendMessage never raises to its caller and never loses a message:
\* every message passed to it so far is on the wire or in messageQueue.
C3_SendNeverLoses ==
    /\ ~raised
    /\ \A id \in 1..(nextMsg - 1) : id \in Range(Ids(sent)) \cup Range(Ids(messageQueue))

\* C3 witness: on an open socket one message went out and a later one, whose
\* transmit failed, is in the queue; an earlier one was queued while offline.
C3_Witness ==
    /\ ws = "OPEN"
    /\ pc = "idle"
    /\ issuedOffline = {1}
    /\ Ids(sent) = <<1>>
    /\ Ids(messageQueue) = <<2>>

\* the transmit of a message failed on an open socket
FailedTransmit ==
    /\ ws = "OPEN"
    /\ sent' = sent
    /\ pc = "drain" \/ nextMsg' = nextMsg + 1

\* C4: a message whose transmit fails while the socket is open is re-queued
\* at the front of the pending queue. Violated: the catch block pushes it to
\* the back.
C4_RequeuedAtFront ==
    [][FailedTransmit =>
        Head(messageQueue').id = IF pc = "drain" THEN Head(messageQueue).id ELSE nextMsg]_vars

\* C5: connect() called while the handler is connecting or connected creates
\* no socket and changes no state. Violated: onopen clears isConnecting, so a
\* call on an open socket opens a second one.
C5_ConnectIdempotent ==
    [][(apiCalls' # apiCalls /\ (isConnecting \/ ws \in {"CONNECTING", "OPEN"}))
        => UNCHANGED connVars]_vars

\* no socket can fire an event, no timer is pending and the cap is reached
Exhausted ==
    /\ reconnectAttempts = maxReconnectAttempts
    /\ timers = <<>>
    /\ AliveRefs = {}

ExpectedDelay == <<HalfMs(3000), HalfMs(4500), HalfMs(6750), HalfMs(10125), 30375>>

\* C7: the delay of the retry scheduled after the n-th consecutive failure
\* since the last successful open is 3000 * 1.5^(n-1) ms, for n = 1..5.
C7_BackoffDelay ==
    \A i \in DOMAIN timers :
        /\ timers[i].n \in 1..maxReconnectAttempts
        /\ DelayExact(timers[i].n)
        /\ timers[i].delay = ExpectedDelay[timers[i].n]

\* C7 witness: the fifth retry is pending with 15187.5 ms, after an earlier open
C7_Witness ==
    /\ opens > 0
    /\ \E i \in DOMAIN timers : timers[i].n = 5 /\ timers[i].delay = 30375

\* C8: reconnectAttempts is zero after every successful open and always
\* within 0..maxReconnectAttempts.
C8_AttemptsResetAndCapped ==
    /\ [](reconnectAttempts \in 0..maxReconnectAttempts)
    /\ [][OpenStep => reconnectAttempts' = 0]_vars

\* C8 witness: a second open (so one that followed a close and a retry) left
\* the counter at zero
C8_Witness == opens = 2 /\ ws = "OPEN" /\ reconnectAttempts = 0 /\ pc = "idle"

\* C9: after a close or a failed connect with reconnectAttempts below the cap
\* a retry is scheduled, and when a retry timer fires a connection attempt is
\* started. Violated: when new WebSocket throws, isConnecting stays true and
\* the timer's callback skips connect().
C9_RetryIsMade ==
    [][/\ (FailureStep /\ reconnectAttempts < maxReconnectAttempts)
            => Len(timers') = Len(timers) + 1
       /\ TimerStep => AttemptStarted]_vars

\* the handlers the claim names, and the file-registry update
Consumers ==
    {"handleSurveyGenerated", "handleAnalysisReceived", "handlePlanReceived",
     "handleSectionReady", "handleComplete", "handleFileProcessed"}

\* the frames whose error field is truthy
TruthyErrorFrames == {f \in Frames : f.decodes /\ f.error = "truthy"}

Unrecognized(v) ==
    {f \in Frames :
        \/ ~f.decodes
        \/ /\ f.error # "truthy"
           /\ IF v = "current" THEN f.type \notin KnownTypes /\ f.status # "error"
                                ELSE f.status \notin KnownStatuses}

\* C11: a frame that cannot be decoded, or whose kind is absent or unknown,
\* is dropped: the socket stays open with the handler ready for the next
\* frame, and connection, session, generate button, playback and file state
\* are unchanged.
C11_UnrecognizedDropped ==
    /\ [](\A f \in Unrecognized(variant) : Route(variant, f) \in {"dropped", "log"})
    /\ [][lastRoute' = "dropped"
            => UNCHANGED <<connVars, pc, sessionVars, generateBtnDisabled,
                           playbackVars, fileVars>>]_vars

\* C11 witness: a frame was dropped with a survey and an analysis stored
C11_Witness ==
    /\ lastRoute = "dropped"
    /\ lastError = "falsy"
    /\ currentSurvey # 0
    /\ analysis # 0

\* a request of this type has been handed to sendMessage (sent or still queued)
Requested(type) ==
    \E m \in Range(sent) \cup Range(messageQueue) : m.type = type

\* C12: a frame that arrives in a stage where it is not the expected next
\* frame leaves the stored survey, session id, analysis, plan and step as
\* they are; here: before any survey was asked for, no frame is expected.
C12_OnlyAlongGraph ==
    [][lastError' # NoFrame /\ ~Requested("survey_generate")
            => UNCHANGED <<currentSurvey, surveyId, analysis, plan, currentStep>>]_vars

\* C13: once a survey has been accepted, a further survey_generated frame
\* neither replaces currentSurvey or surveyId nor takes the step back to
\* the survey (only handleSurveyGenerated sets currentStep to 1).
C13_SurveyGeneratedIdempotent ==
    [][currentSurvey # 0 /\ lastError' # NoFrame
            => /\ UNCHANGED <<currentSurvey, surveyId>>
               /\ currentStep' = 1 => currentStep = 1]_vars

\* a question violates its constraints: it is required and has no response,
\* or its response is a rating outside a bound the question sets
Violates(question, response) ==
    \/ question.required /\ response = 0
    \/ /\ response # 0
       /\ question.type = "rating"
       /\ \/ question.min # 0 /\ response < question.min
          \/ question.max # 0 /\ response > question.max

Violating ==
    {i \in 1..MaxQuestions : Violates(questions[i], surveyResponses[questions[i].question_id])}

C15_PlanOnlyAfterSubmit ==
    Requested("program_plan") => Requested("survey_submit")

\* the step hands a request of this type to sendMessage
Requests(type) ==
    \E m \in Range(sent') \cup Range(messageQueue') : m.id = nextMsg /\ m.type = type

\* C16: a dialogue request is sent only when a plan has been received.
C16_DialogueOnlyWhenPlanReady ==
    [][Requests("dialogue") => plan # 0]_vars

\* the frames the router hands to handleComplete
CompleteFrames == {f \in Frames : Route(variant, f) = "handleComplete"}

\* C17: a complete frame received while no dialogue was asked for is not
\* acted on: the session and the generate button stay as they are.
C17_CompleteOnlyInDialogue ==
    [][(\E f \in CompleteFrames : OnMessage(f, FALSE)) /\ ~Requested("dialogue")
            => UNCHANGED <<sessionVars, generateBtnDisabled>>]_vars

\* C18: after a frame with an error has been handled, the generate button
\* is usable, so that a new topic can be submitted.
C18_ErrorReenablesRestart ==
    [][lastError' = "truthy" => ~generateBtnDisabled']_vars

\* C19: the step that asks for a survey leaves no data of an earlier
\* session behind: survey, responses, session id, analysis and plan are
\* cleared.
C19_StartClearsSession ==
    [][Requests("survey_generate")
            => /\ currentSurvey' = 0 /\ surveyId' = 0 /\ analysis' = 0 /\ plan' = 0
               /\ surveyResponses' = NoResponses]_vars

\* C20: surveyResponses is changed by the capture of a star click only; the
\* handling of an inbound frame, of whatever kind, never changes it.
C20_ResponsesOnlyByCapture ==
    /\ [][lastError' # NoFrame => UNCHANGED surveyResponses]_vars
    /\ [][surveyResponses' # surveyResponses
            => \E i \in 1..MaxQuestions, value \in 1..DefaultStars :
                    HandleRatingClick(i, value)]_vars

C20_Witness ==
    /\ lastRoute = "routed"
    /\ surveyResponses # NoResponses
    /\ plan # 0

\* the legacy generate click, the only caller of AudioManager.reset()
ResetStep == \E throws \in BOOLEAN : GenerateClick(throws)

\* C21: in every step other than a reset, currentAudioIndex stays or grows.
C21_IndexNeverDecreases ==
    [][ResetStep \/ currentAudioIndex' >= currentAudioIndex]_vars

\* C22: the current segment is the one at currentAudioIndex, and when its
\* media plays to the end while a later segment is queued, the index grows
\* by exactly one, the segment at the new index becomes the current one and
\* (unless its media has failed before) is started; the queue keeps its order.
C22_EndedAdvancesByOne ==
    /\ [](currentAudio = currentAudioIndex)
    /\ [][\A i \in 0..(MaxAudio - 1) :
            Ended(i) /\ i = currentAudio /\ i + 1 < Len(audioQueue)
                => /\ currentAudioIndex' = i + 1
                   /\ currentAudio' = i + 1
                   /\ Len(audioQueue') = Len(audioQueue)
                   /\ \A j \in DOMAIN audioQueue : audioQueue'[j].url = audioQueue[j].url
                   /\ audioQueue[i + 2].media # "failed" => (i + 2) \in Sounding(audioQueue')
                   /\ \E k \in DOMAIN pendingPlays' :
                        pendingPlays'[k] = [audio |-> i + 1, kind |-> "playNext",
                                            detached |-> FALSE]]_vars

C22_Witness ==
    /\ isPlaying
    /\ currentAudioIndex = 1
    /\ audioQueue[1].media = "ended"
    /\ audioQueue[2].media = "playing"

\* C23: when every queued segment has played to its end and the next one
\* arrives, that segment is started without a click.
C23_ResumesOnArrival ==
    [][(/\ Len(audioQueue) > 0
        /\ \A j \in DOMAIN audioQueue : audioQueue[j].media = "ended"
        /\ Len(audioQueue') = Len(audioQueue) + 1)
            => Len(audioQueue') \in Sounding(audioQueue')]_vars

\* C24: a media error of the current segment does not halt the queue: the
\* cursor moves past the failed segment to the next queued one.
C24_ErrorSkipsForward ==
    [][\A i \in 0..(MaxAudio - 1) :
            MediaError(i) /\ i = currentAudio /\ i + 1 < Len(audioQueue)
                => currentAudioIndex' = i + 1]_vars

\* the fields of an AudioManager, of a SurveyManager
PlayerFields(a) == <<a.audioQueue, a.currentAudioIndex, a.isPlaying, a.currentAudio>>
SessionFields(s) ==
    <<s.currentSurvey, s.surveyResponses, s.surveyId, s.analysis, s.plan, s.currentStep>>

\* C25: whatever happened before, AudioManager.reset() leaves an empty queue,
\* index -1, isPlaying false and no current element, with none of the
\* removed elements still sounding, and SurveyManager.reset() leaves the
\* constructor's session; a second reset() changes nothing more.
C25_ResetIsInitialAndIdempotent ==
    /\ [][ResetStep /\ variant = "legacy"
            => /\ PlayerFields(Player') = PlayerFields(NewPlayer)
               /\ \A e \in released' : e.now \notin {"starting", "playing"}]_vars
    /\ [](LET once == audioReset(Player)
          IN /\ PlayerFields(once) = PlayerFields(NewPlayer)
             /\ PlayerFields(audioReset(once)) = PlayerFields(once))
    /\ [](LET once == surveyReset(Session)
          IN /\ SessionFields(once) = <<0, NoResponses, 0, 0, 0, 1>>
             /\ surveyReset(once) = once)

C25_Witness ==
    /\ audioQueue = <<>>
    /\ currentAudioIndex = -1
    /\ \E e \in released : e.was = "playing"
    /\ pendingPlays # <<>>

\* C26: a play() promise of an element that reset() has removed changes no
\* field of the AudioManager when it is settled.
C26_LateSettlementIsNoOp ==
    [][\A k \in 1..MaxPending :
            (PlayResolves(k) \/ PlayRejects(k)) /\ pendingPlays[k].detached
                => UNCHANGED <<audioQueue, currentAudioIndex, isPlaying, currentAudio>>]_vars

\* C27: at most one queued segment plays at any time.
C27_AtMostOnePlaying ==
    Cardinality({j \in DOMAIN audioQueue : audioQueue[j].media = "playing"}) <= 1

\* a step of the connection: a socket closes or opens, a reconnect timer fires
ConnectionStep ==
    \/ \E r \in Sockets : OnClose(r) \/ OnOpen(r)
    \/ \E i \in 1..maxReconnectAttempts : TimerFire(i, FALSE)

\* C28: a drop of the connection, the reconnect attempts and the reopening
\* leave the queue, its elements, the cursor and the playback state as they are.
C28_ReconnectKeepsPlayback ==
    [][ConnectionStep => UNCHANGED playbackVars]_vars

C28_Witness ==
    /\ opens = 2
    /\ ws = "OPEN"
    /\ Len(audioQueue) = 2
    /\ currentAudioIndex = 1
    /\ audioQueue[1].media = "ended"
    /\ audioQueue[2].media = "playing"

\* C29: in the nominal run the generate trigger, used once the plan has been
\* received, asks for the dialogue.
C29_PlanReadyClickAsksDialogue ==
    [][(\E throws \in BOOLEAN : GenerateClick(throws)) /\ plan # 0
            => Requests("dialogue")]_vars

\* the files whose context button reads as active (updateFileList compares
\* each listed id with this.activeFile)
ActiveFiles == {id \in 1..MaxFiles : activeFile = id}

\* C30: at most one file is active at any time; a click on the context
\* button of a file leaves that file the only active one, whichever file was
\* active before, unless it was itself the active one, in which case no file
\* is active afterwards. No other step activates a file.
C30_AtMostOneActive ==
    /\ [](Cardinality(ActiveFiles) <= 1)
    /\ [][\A fileId \in 1..MaxFiles : ToggleFileContext(fileId)
            => ActiveFiles' = IF fileId \in ActiveFiles THEN {} ELSE {fileId}]_vars
    /\ [][(\A fileId \in 1..MaxFiles : ~ToggleFileContext(fileId))
            => ActiveFiles' \subseteq ActiveFiles]_vars

\* C30 witness: the second file is the active one while the first, listed
\* and processed before it, is still listed
C30_Witness ==
    /\ activeFile = 2
    /\ files[1].present /\ files[1].processed
    /\ files[2].present

\* C31: a deleteFile whose request succeeds leaves the record absent from the
\* registry and, if the file was the active one, no file active; and in every
\* state, also between the click on a delete button and the settling of its
\* request, activeFile is null or the id of a record of the registry.
C31_ActiveFileIsListed ==
    /\ [](activeFile # NoActiveFile => files[activeFile].present)
    /\ [][\A fileId \in 1..MaxFiles : DeleteFile(fileId, TRUE)
            => /\ ~files'[fileId].present
               /\ activeFile = fileId => activeFile' = NoActiveFile
               /\ activeFile # fileId => activeFile' = activeFile]_vars

\* C31 witness: the first file was deleted while a second request to delete
\* it is still in flight, and the user has made the other file active
C31_Witness ==
    /\ ~files[1].present
    /\ deleting[1] > 0
    /\ activeFile = 2

\* C32: getActiveFileContext() returns null when no file is active and when
\* the active record is not processed; it returns a context payload only when
\* the active record is processed, and then that record's payload.
C32_ContextOnlyWhenProcessed ==
    /\ activeFile = NoActiveFile => getActiveFileContext(files, activeFile) = 0
    /\ (activeFile # NoActiveFile /\ ~files[activeFile].processed)
            => getActiveFileContext(files, activeFile) = 0
    /\ (activeFile # NoActiveFile /\ files[activeFile].processed)
            => getActiveFileContext(files, activeFile) = files[activeFile].context

\* C33: a file_processed frame, without an error field, for a file of the
\* registry leaves that record processed with a context attached and the
\* other records as they were; a frame for a file the registry does not hold
\* changes nothing of the registry.
C33_FileProcessedMarksRecord ==
    [][\A f \in {g \in Frames : g.status = "file_processed" /\ g.error = "absent"} :
            OnMessage(f, FALSE)
            => IF files[f.file_id].present
               THEN /\ files'[f.file_id].present
                    /\ files'[f.file_id].processed
                    /\ files'[f.file_id].context # 0
                    /\ \A id \in 1..MaxFiles \ {f.file_id} : files'[id] = files[id]
               ELSE files' = files]_vars

\* C34: the loop onopen runs over messageQueue always terminates: whenever
\* the handler is inside the loop it later leaves it, also when the transmit
\* of a message the loop took from the queue fails.
C34_DrainTerminates == (pc = "drain") ~> (pc = "idle")

\* the sockets of the handler, the one this.ws refers to and the ones it has
\* replaced, that are connecting or open
LiveSockets ==
    (IF ws \in {"CONNECTING", "OPEN"} THEN 1 ELSE 0) + orphans["CONNECTING"] + orphans["OPEN"]

\* C35: in every state at most one socket of the handler is connecting or
\* open, and at most one reconnect timer is pending, whatever the order of
\* the open, error, close and timer events.
C35_OneSocketOneTimer ==
    /\ LiveSockets <= 1
    /\ Len(timers) <= 1

\* C35 witness: the connection was opened, lost and, after the reconnect
\* timer fired, opened again
C35_Witness ==
    /\ opens = 2
    /\ ws = "OPEN"
    /\ timers = <<>>
    /\ LiveSockets = 1

\* C36: between event handlers the cursor is consistent with the queue:
\* -1 <= currentAudioIndex < audioQueue.length, currentAudio is null exactly
\* when currentAudioIndex is -1, and otherwise it is the element of the queue
\* at currentAudioIndex.
C36_CursorConsistent ==
    /\ -1 <= currentAudioIndex
    /\ currentAudioIndex < Len(audioQueue)
    /\ (currentAudio = NoAudio) <=> (currentAudioIndex = -1)
    /\ currentAudioIndex # -1 => currentAudio = currentAudioIndex

\* C36 witness: both segments were played to their end and the cursor went
\* back to -1 with the queue still filled
C36_Witness ==
    /\ Len(audioQueue) = 2
    /\ \A j \in DOMAIN audioQueue : audioQueue[j].media = "ended"
    /\ currentAudioIndex = -1
    /\ currentAudio = NoAudio

\* C37: in every state isPlaying = true implies that currentAudio is not
\* null and that this segment is the one sounding (its play() called and not
\* paused, ended or failed since), and no other segment is.
C37_IsPlayingMeansSounding ==
    isPlaying => /\ currentAudio # NoAudio
                 /\ Sounding(audioQueue) = {currentAudio + 1}

\* C38: a record that is marked processed stays processed, with the context
\* it has, for as long as it is in the registry: no step that leaves the
\* record in the registry resets processed to false or changes its context.
C38_ProcessedIsStable ==
    [][\A id \in 1..MaxFiles :
            (files[id].present /\ files[id].processed /\ files'[id].present)
            => (files'[id].processed /\ files'[id].context = files[id].context)]_vars

\* C39: a deleteFile whose request is rejected by the server, or fails, leaves
\* the registry as it is: the records, the record of the file among them, and
\* activeFile are the same after its catch block as before, and the same
\* after the click as before it.
C39_FailedDeleteChangesNothing ==
    /\ [][\A fileId \in 1..MaxFiles : DeleteFile(fileId, FALSE)
            => (files' = files /\ activeFile' = activeFile /\ deleteAlerted')]_vars
    /\ [][\A fileId \in 1..MaxFiles : DeleteClick(fileId)
            => (files' = files /\ activeFile' = activeFile)]_vars

\* C39 witness: the request to delete the active file was rejected: the
\* alert was shown, no request is in flight, the file is still listed,
\* processed and active
C39_Witness ==
    /\ deleteAlerted
    /\ deleting = [i \in 1..MaxFiles |-> 0]
    /\ files[1].present /\ files[1].processed
    /\ activeFile = 1

============================================================================
